---- MODULE Spec2Model ----
(***************************************************************************)
(* Model of the graceful-shutdown harness of common/server.go:             *)
(* HummingbirdServer (ConnStateChange, BeginShutdown, Wait) and RunServers.*)
(*                                                                         *)
(* Goroutines: the main goroutine running RunServers, one Serve goroutine  *)
(* per server (net/http accept loop, started at line 186), one goroutine   *)
(* per accepted connection (net/http, reports through the ConnState hook), *)
(* and the watchdog goroutine of lines 197-200.                            *)
(*                                                                         *)
(* Time is in seconds and is measured from the moment the main goroutine   *)
(* receives its signal (line 192).  Non-blocking statements take no time;  *)
(* time passes only while the main goroutine is blocked in wg.Wait() or in *)
(* time.Sleep, and never beyond the expiry of a pending time.Sleep.        *)
(***************************************************************************)
EXTENDS Integers, Sequences, FiniteSets, TLC

\* ---- bounds of the model ------------------------------------------------
MaxServers == 2        \* at most this many configuration files
MaxConns == 2          \* at most this many connections over the process lifetime
\* The clock advances by at most Quantum seconds per step.  With 145, two
\* drains of one step each and their two pauses end exactly at GracePeriod,
\* where the main goroutine and the watchdog are due at the same instant.
Quantum == 145

\* ---- program constants --------------------------------------------------
GracePeriod == 300     \* time.Minute * 5, in seconds
InterServerPause == 5  \* time.Second * 5, in seconds

Horizon == GracePeriod + Quantum   \* the clock is not followed beyond this

Servers == 1..MaxServers
Conns == 1..MaxConns

SIGINT == "SIGINT"
SIGTERM == "SIGTERM"
SIGQUIT == "SIGQUIT"
Signals == {SIGTERM, SIGINT, SIGQUIT}

\* http.ConnState values, plus the two states the hook never reports:
\* "none" (no such connection yet) and "accepted" (Accept returned the
\* connection, the Serve goroutine has not yet reported StateNew).
StateNew == "StateNew"
StateActive == "StateActive"
StateIdle == "StateIdle"
StateHijacked == "StateHijacked"
StateClosed == "StateClosed"
ConnStates == {StateNew, StateActive, StateIdle, StateHijacked, StateClosed}

Min(a, b) == IF a <= b THEN a ELSE b

VARIABLES
    nconf,        \* len(configFiles)
    pc,           \* position of the main goroutine in RunServers
    i,            \* index of the range loop the main goroutine is in
    servers,      \* len(servers): servers 1..servers have been appended
    Listener,     \* Listener[srv]: "nil", "open" or "closed"
    keepAlives,   \* keepAlives[srv]: http.Server keep-alives enabled
    wg,           \* wg[srv]: the WaitGroup counter
    conn,         \* conn[cn]: [srv, state] of connection cn
    notified,     \* signal.Notify has been called
    c,            \* the signal channel, capacity 1
    s,            \* the signal received at line 192, or "none"
    elapsed,      \* seconds since the signal was received
    watchdog,     \* "none" or "sleeping"
    wdDeadline,   \* elapsed value at which the watchdog's Sleep returns
    sleepUntil,   \* elapsed value at which the main goroutine's Sleep returns
    exitBy,       \* who called os.Exit: "none", "main" or "watchdog"
    exitTime,     \* elapsed at os.Exit
    exitCode,     \* exit status of the process: 0 from os.Exit(0), 2 from the panic, -1 while alive
    \* history variables, read by the properties only
    beginCalls,   \* beginCalls[srv]: number of BeginShutdown() calls entered
    closeCalls,   \* closeCalls[srv]: number of Listener.Close() calls
    waitCalled,   \* servers on which Wait() has been called
    waitReturned, \* servers on which Wait() has returned
    waitStart,    \* elapsed when the current Wait() was called
    drainTotal,   \* sum of the durations of the Wait() calls that returned
    lateAccept,   \* connections accepted on a server whose BeginShutdown() had returned
    sentAt,       \* elapsed when the signal now in c was put there, or -1
    sentDraining, \* that signal was sent while Wait() was blocked on an open connection
    bindFailed,   \* net.Listen has returned an error
    returnedAt    \* returnedAt[srv]: elapsed when Wait() returned on srv, or -1

vars == <<nconf, pc, i, servers, Listener, keepAlives, wg, conn, notified, c, s,
          elapsed, watchdog, wdDeadline, sleepUntil, exitBy, exitTime, exitCode,
          beginCalls, closeCalls, waitCalled, waitReturned, waitStart,
          drainTotal, lateAccept, sentAt, sentDraining, bindFailed, returnedAt>>

mainVars == <<pc, i>>
srvVars == <<servers, Listener, keepAlives>>
connVars == <<wg, conn>>
sigVars == <<notified, c, s>>
timeVars == <<elapsed, watchdog, wdDeadline, sleepUntil>>
exitVars == <<exitBy, exitTime, exitCode>>
histVars == <<beginCalls, closeCalls, waitCalled, waitReturned, waitStart,
              drainTotal, lateAccept, sentAt, sentDraining, bindFailed, returnedAt>>

\* The process is alive: neither os.Exit nor the panic of line 180 has happened.
Alive == pc \notin {"done", "panicked"}

NoConn == [srv |-> 0, state |-> "none"]

Init ==
    /\ nconf \in 1..MaxServers
    /\ pc = "listen"
    /\ i = 1
    /\ servers = 0
    /\ Listener = [srv \in Servers |-> "nil"]
    /\ keepAlives = [srv \in Servers |-> TRUE]
    /\ wg = [srv \in Servers |-> 0]
    /\ conn = [cn \in Conns |-> NoConn]
    /\ notified = FALSE
    /\ c = <<>>
    /\ s = "none"
    /\ elapsed = 0
    /\ watchdog = "none"
    /\ wdDeadline = 0
    /\ sleepUntil = 0
    /\ exitBy = "none"
    /\ exitTime = 0
    /\ exitCode = -1
    /\ beginCalls = [srv \in Servers |-> 0]
    /\ closeCalls = [srv \in Servers |-> 0]
    /\ waitCalled = {}
    /\ waitReturned = {}
    /\ waitStart = 0
    /\ drainTotal = 0
    /\ lateAccept = {}
    /\ sentAt = -1
    /\ sentDraining = FALSE
    /\ bindFailed = FALSE
    /\ returnedAt = [srv \in Servers |-> -1]

\* ---- HummingbirdServer ---------------------------------------------------

\* ConnStateChange with the test of line 149 dropped: every state but
\* StateNew counts the connection down.
ConnStateChangeElseDone(counter, state) ==
    IF state = StateNew THEN counter + 1 ELSE counter - 1

\* ConnStateChange: the effect of one hook call on the WaitGroup counter.
ConnStateChange(counter, state) ==
    IF state = StateNew THEN counter + 1
    ELSE IF state = StateClosed THEN counter - 1
    ELSE counter

\* The transitions net/http reports for one connection.  A connection is
\* kept for another request (StateActive -> StateIdle) only while keep-alives
\* are enabled; StateHijacked and StateClosed are terminal.
Reports(from, to, keep) ==
    \/ from = "accepted" /\ to = StateNew
    \/ from = StateNew /\ to \in {StateActive, StateClosed}
    \/ from = StateActive /\ to \in {StateClosed, StateHijacked}
    \/ from = StateActive /\ to = StateIdle /\ keep
    \/ from = StateIdle /\ to \in {StateActive, StateClosed}

\* The Serve goroutine of srv: Accept returns the next connection.
Accept(srv) ==
    /\ Alive
    /\ srv <= servers
    /\ Listener[srv] = "open"
    /\ \E cn \in Conns :
        /\ conn[cn].state = "none"
        /\ \A other \in Conns : other < cn => conn[other].state # "none"
        /\ conn' = [conn EXCEPT ![cn] = [srv |-> srv, state |-> "accepted"]]
    /\ lateAccept' = IF closeCalls[srv] > 0 THEN lateAccept \cup {srv} ELSE lateAccept
    /\ UNCHANGED <<nconf, mainVars, srvVars, wg, sigVars, timeVars, exitVars,
                   beginCalls, closeCalls, waitCalled, waitReturned, waitStart,
                   drainTotal, sentAt, sentDraining, bindFailed, returnedAt>>

\* net/http reports a state transition of connection cn through srv.ConnState.
ConnState(cn, state) ==
    /\ Alive
    /\ conn[cn].state # "none"
    /\ Reports(conn[cn].state, state, keepAlives[conn[cn].srv])
    /\ conn' = [conn EXCEPT ![cn].state = state]
    /\ wg' = [wg EXCEPT ![conn[cn].srv] = ConnStateChange(@, state)]
    /\ UNCHANGED <<nconf, mainVars, srvVars, sigVars, timeVars, exitVars, histVars>>

\* ---- RunServers ----------------------------------------------------------

\* The loop of lines 176-188 with the error of net.Listen skipped over
\* (continue instead of panic).
ListenSkipsError(ok) ==
    /\ pc = "listen"
    /\ i <= nconf
    /\ IF ok
       THEN /\ servers' = servers + 1
            /\ Listener' = [Listener EXCEPT ![i] = "open"]
            /\ UNCHANGED bindFailed
       ELSE /\ bindFailed' = TRUE
            /\ UNCHANGED <<servers, Listener>>
    /\ i' = i + 1
    /\ pc' = pc
    /\ UNCHANGED <<nconf, keepAlives, connVars, sigVars, timeVars, exitVars,
                   beginCalls, closeCalls, waitCalled, waitReturned, waitStart,
                   drainTotal, lateAccept, sentAt, sentDraining, returnedAt>>

\* One iteration of the loop of lines 176-188.
Listen(ok) ==
    /\ pc = "listen"
    /\ i <= nconf
    /\ IF ok
       THEN /\ servers' = servers + 1
            /\ Listener' = [Listener EXCEPT ![i] = "open"]
            /\ i' = i + 1
            /\ pc' = pc
            /\ UNCHANGED <<exitCode, bindFailed>>
       ELSE /\ pc' = "panicked"
            /\ exitCode' = 2
            /\ bindFailed' = TRUE
            /\ UNCHANGED <<servers, Listener, i>>
    /\ UNCHANGED <<nconf, keepAlives, connVars, sigVars, timeVars, exitBy, exitTime,
                   beginCalls, closeCalls, waitCalled, waitReturned, waitStart,
                   drainTotal, lateAccept, sentAt, sentDraining, returnedAt>>

\* Lines 190-191: the channel is made and the three signals are subscribed to.
Notify ==
    /\ pc = "listen"
    /\ i > nconf
    /\ notified' = TRUE
    /\ pc' = "recv"
    /\ UNCHANGED <<nconf, i, srvVars, connVars, c, s, timeVars, exitVars, histVars>>

\* The runtime delivers a subscribed signal: a non-blocking send on c, so a
\* signal that finds the channel full is dropped.
Signal(sig) ==
    /\ Alive
    /\ notified
    /\ Len(c) < 1
    /\ c' = Append(c, sig)
    /\ sentAt' = elapsed
    /\ sentDraining' = (pc = "waiting" /\ wg[i] > 0)
    /\ UNCHANGED <<nconf, mainVars, srvVars, connVars, notified, s, timeVars, exitVars,
                   beginCalls, closeCalls, waitCalled, waitReturned, waitStart,
                   drainTotal, lateAccept, bindFailed, returnedAt>>

\* Line 193 with the test turned into s != SIGQUIT.
GracefulUnlessQuit(sig) == sig # SIGQUIT

\* Line 193: which signal starts the graceful protocol.
Graceful(sig) == sig = SIGINT

\* Line 192 inside a loop: the channel is read again while the drain is
\* blocked, and the new signal is acted upon.
RecvAgainWhileWaiting ==
    /\ pc \in {"recv", "waiting"}
    /\ c # <<>>
    /\ s' = Head(c)
    /\ c' = Tail(c)
    /\ IF Head(c) = SIGINT /\ pc = "recv"
       THEN pc' = "beginShutdown" /\ i' = 1
       ELSE pc' = "exit" /\ i' = i
    /\ UNCHANGED <<nconf, srvVars, connVars, notified, timeVars, exitVars, histVars>>

\* Lines 192-193: s := <-c, and the branch on it.
Recv ==
    /\ pc = "recv"
    /\ c # <<>>
    /\ s' = Head(c)
    /\ c' = Tail(c)
    /\ IF Graceful(Head(c))
       THEN pc' = "beginShutdown" /\ i' = 1
       ELSE pc' = "exit" /\ i' = i
    /\ UNCHANGED <<nconf, srvVars, connVars, notified, timeVars, exitVars, histVars>>

\* BeginShutdown with line 155 left out: keep-alives stay enabled.
SetKeepAlivesEnabledForgotten ==
    /\ pc = "beginShutdown"
    /\ beginCalls' = [beginCalls EXCEPT ![i] = @ + 1]
    /\ pc' = "closeListener"
    /\ UNCHANGED <<nconf, i, servers, Listener, keepAlives, connVars, sigVars, timeVars,
                   exitVars, closeCalls, waitCalled, waitReturned, waitStart,
                   drainTotal, lateAccept, sentAt, sentDraining, bindFailed,
                   returnedAt>>

\* Line 155, in iteration i of the loop of lines 194-196.
SetKeepAlivesEnabled ==
    /\ pc = "beginShutdown"
    /\ keepAlives' = [keepAlives EXCEPT ![i] = FALSE]
    /\ beginCalls' = [beginCalls EXCEPT ![i] = @ + 1]
    /\ pc' = "closeListener"
    /\ UNCHANGED <<nconf, i, servers, Listener, connVars, sigVars, timeVars, exitVars,
                   closeCalls, waitCalled, waitReturned, waitStart, drainTotal,
                   lateAccept, sentAt, sentDraining, bindFailed, returnedAt>>

\* Lines 194-204 with one loop instead of two: the main goroutine goes on
\* to the watchdog and the waits as soon as the first listener is closed.
ListenerCloseThenWait ==
    /\ pc = "closeListener"
    /\ Listener' = [Listener EXCEPT ![i] = "closed"]
    /\ closeCalls' = [closeCalls EXCEPT ![i] = @ + 1]
    /\ pc' = "goWatchdog"
    /\ i' = i
    /\ UNCHANGED <<nconf, servers, keepAlives, connVars, sigVars, timeVars, exitVars,
                   beginCalls, waitCalled, waitReturned, waitStart, drainTotal,
                   lateAccept, sentAt, sentDraining, bindFailed, returnedAt>>

\* BeginShutdown with line 156 left out: the listener stays open.
ListenerCloseForgotten ==
    /\ pc = "closeListener"
    /\ closeCalls' = [closeCalls EXCEPT ![i] = @ + 1]
    /\ IF i < servers
       THEN pc' = "beginShutdown" /\ i' = i + 1
       ELSE pc' = "goWatchdog" /\ i' = i
    /\ UNCHANGED <<nconf, servers, Listener, keepAlives, connVars, sigVars, timeVars,
                   exitVars, beginCalls, waitCalled, waitReturned, waitStart,
                   drainTotal, lateAccept, sentAt, sentDraining, bindFailed, returnedAt>>

\* The loop of lines 194-196 closing the listener of servers[0] in every
\* iteration.
ListenerCloseFirst ==
    /\ pc = "closeListener"
    /\ Listener' = [Listener EXCEPT ![1] = "closed"]
    /\ closeCalls' = [closeCalls EXCEPT ![1] = @ + 1]
    /\ IF i < servers
       THEN pc' = "beginShutdown" /\ i' = i + 1
       ELSE pc' = "goWatchdog" /\ i' = i
    /\ UNCHANGED <<nconf, servers, keepAlives, connVars, sigVars, timeVars, exitVars,
                   beginCalls, waitCalled, waitReturned, waitStart, drainTotal,
                   lateAccept, sentAt, sentDraining, bindFailed, returnedAt>>

\* Line 156, and the step of the loop of lines 194-196.
ListenerClose ==
    /\ pc = "closeListener"
    /\ Listener' = [Listener EXCEPT ![i] = "closed"]
    /\ closeCalls' = [closeCalls EXCEPT ![i] = @ + 1]
    /\ IF i < servers
       THEN pc' = "beginShutdown" /\ i' = i + 1
       ELSE pc' = "goWatchdog" /\ i' = i
    /\ UNCHANGED <<nconf, servers, keepAlives, connVars, sigVars, timeVars, exitVars,
                   beginCalls, waitCalled, waitReturned, waitStart, drainTotal,
                   lateAccept, sentAt, sentDraining, bindFailed, returnedAt>>

\* Line 198 with time.Hour in place of time.Minute.
WatchdogDeadlineHours(t) == t + GracePeriod * 60

\* Line 198: when the watchdog's Sleep, started at time t, returns.
WatchdogDeadline(t) == t + GracePeriod

\* Lines 197-200 left out: the drain loop starts without a watchdog.
GoWatchdogForgotten ==
    /\ pc = "goWatchdog"
    /\ pc' = "wait"
    /\ i' = 1
    /\ UNCHANGED <<nconf, srvVars, connVars, sigVars, timeVars, exitVars, histVars>>

\* Lines 197-200: the watchdog goroutine is started and goes to sleep.
GoWatchdog ==
    /\ pc = "goWatchdog"
    /\ watchdog' = "sleeping"
    /\ wdDeadline' = WatchdogDeadline(elapsed)
    /\ pc' = "wait"
    /\ i' = 1
    /\ UNCHANGED <<nconf, srvVars, connVars, sigVars, elapsed, sleepUntil, exitVars,
                   histVars>>

\* Line 202: srv.Wait() is called on server i.
WaitCall ==
    /\ pc = "wait"
    /\ waitCalled' = waitCalled \cup {i}
    /\ waitStart' = elapsed
    /\ pc' = "waiting"
    /\ UNCHANGED <<nconf, i, srvVars, connVars, sigVars, timeVars, exitVars,
                   beginCalls, closeCalls, waitReturned, drainTotal, lateAccept,
                   sentAt, sentDraining, bindFailed, returnedAt>>

\* A Wait that returns one connection early.
WaitCanReturnAtOne(counter) == counter <= 1

\* Line 160: wg.Wait() returns when the counter is zero.
WaitCanReturn(counter) == counter = 0

\* Line 203 left out: no pause after a Wait.
SleepDeadlineNoPause(t) == t

\* Line 203: when the main goroutine's Sleep, started at time t, returns.
SleepDeadline(t) == t + InterServerPause

\* Lines 202-203 with the Sleep skipped after the last server's Wait.
WaitReturnNoLastPause ==
    /\ pc = "waiting"
    /\ WaitCanReturn(wg[i])
    /\ waitReturned' = waitReturned \cup {i}
    /\ drainTotal' = drainTotal + (elapsed - waitStart)
    /\ returnedAt' = [returnedAt EXCEPT ![i] = elapsed]
    /\ sleepUntil' = IF i < servers THEN SleepDeadline(elapsed) ELSE elapsed
    /\ pc' = "sleep"
    /\ UNCHANGED <<nconf, i, srvVars, connVars, sigVars, elapsed, watchdog, wdDeadline,
                   exitVars, beginCalls, closeCalls, waitCalled, waitStart,
                   lateAccept, sentAt, sentDraining, bindFailed>>

\* Lines 202-203: srv.Wait() returns and the main goroutine goes to sleep.
WaitReturn ==
    /\ pc = "waiting"
    /\ WaitCanReturn(wg[i])
    /\ waitReturned' = waitReturned \cup {i}
    /\ drainTotal' = drainTotal + (elapsed - waitStart)
    /\ returnedAt' = [returnedAt EXCEPT ![i] = elapsed]
    /\ sleepUntil' = SleepDeadline(elapsed)
    /\ pc' = "sleep"
    /\ UNCHANGED <<nconf, i, srvVars, connVars, sigVars, elapsed, watchdog, wdDeadline,
                   exitVars, beginCalls, closeCalls, waitCalled, waitStart,
                   lateAccept, sentAt, sentDraining, bindFailed>>

\* The loop of lines 201-204 going on without the Sleep of line 203 having
\* returned (the pause started but not waited for).
SleepReturnEarly ==
    /\ pc = "sleep"
    /\ IF i < servers
       THEN pc' = "wait" /\ i' = i + 1
       ELSE pc' = "exit" /\ i' = i
    /\ UNCHANGED <<nconf, srvVars, connVars, sigVars, timeVars, exitVars, histVars>>

\* Line 203 returns, and the step of the loop of lines 201-204.
SleepReturn ==
    /\ pc = "sleep"
    /\ elapsed >= sleepUntil
    /\ IF i < servers
       THEN pc' = "wait" /\ i' = i + 1
       ELSE pc' = "exit" /\ i' = i
    /\ UNCHANGED <<nconf, srvVars, connVars, sigVars, timeVars, exitVars, histVars>>

\* Line 206: os.Exit(0) in the main goroutine.
Exit ==
    /\ pc = "exit"
    /\ pc' = "done"
    /\ exitBy' = "main"
    /\ exitTime' = elapsed
    /\ exitCode' = 0
    /\ UNCHANGED <<nconf, i, srvVars, connVars, sigVars, timeVars, histVars>>

\* Line 199: os.Exit(0) in the watchdog goroutine, once its Sleep returned.
WatchdogExit ==
    /\ Alive
    /\ watchdog = "sleeping"
    /\ elapsed >= wdDeadline
    /\ pc' = "done"
    /\ exitBy' = "watchdog"
    /\ exitTime' = elapsed
    /\ exitCode' = 0
    /\ UNCHANGED <<nconf, i, srvVars, connVars, sigVars, timeVars, histVars>>

\* ---- time ----------------------------------------------------------------

\* The main goroutine is blocked in wg.Wait() or in time.Sleep.
MainBlocked ==
    \/ pc = "waiting" /\ ~WaitCanReturn(wg[i])
    \/ pc = "sleep" /\ elapsed < sleepUntil

\* The next expiry of a pending time.Sleep.
NextExpiry ==
    LET w == IF watchdog = "sleeping" THEN wdDeadline ELSE Horizon
        m == IF pc = "sleep" THEN sleepUntil ELSE Horizon
    IN  Min(w, m)

Tick ==
    /\ Alive
    /\ MainBlocked
    /\ elapsed < NextExpiry
    /\ elapsed < Horizon
    /\ elapsed' = Min(elapsed + Quantum, NextExpiry)
    /\ UNCHANGED <<nconf, mainVars, srvVars, connVars, sigVars, watchdog, wdDeadline,
                   sleepUntil, exitVars, histVars>>

Next ==
    \/ \E ok \in BOOLEAN : Listen(ok)
    \/ Notify
    \/ \E sig \in Signals : Signal(sig)
    \/ Recv
    \/ SetKeepAlivesEnabled
    \/ ListenerClose
    \/ GoWatchdog
    \/ WaitCall
    \/ WaitReturn
    \/ SleepReturn
    \/ Exit
    \/ WatchdogExit
    \/ \E srv \in Servers : Accept(srv)
    \/ \E cn \in Conns, state \in ConnStates : ConnState(cn, state)
    \/ Tick

Spec == Init /\ [][Next]_vars

\* ---- properties ----------------------------------------------------------

Built == 1..servers

\* Connection cn has been accepted and has not reported StateClosed.
Open(cn) == conn[cn].state \notin {"none", StateClosed}

\* The connections of srv that reported StateNew / StateClosed so far.
ReportedNew(srv) ==
    {cn \in Conns : conn[cn].srv = srv /\ conn[cn].state \in ConnStates}
ReportedClosed(srv) ==
    {cn \in Conns : conn[cn].srv = srv /\ conn[cn].state = StateClosed}

\* A step of the main goroutine after the signal, or of the watchdog, or of
\* the clock.
Progress ==
    \/ SetKeepAlivesEnabled \/ ListenerClose \/ GoWatchdog \/ WaitCall
    \/ WaitReturn \/ SleepReturn \/ Exit \/ WatchdogExit \/ Tick

\* C1: on the SIGINT path the process is never alive later than GracePeriod
\* after the signal was received, whatever the connections do: the clock
\* never passes GracePeriod, an exit is at GracePeriod at the latest, and
\* until the exit the process is never stuck (the main goroutine, the
\* watchdog or the clock can step).
C1_DeadlineWins ==
    s = SIGINT =>
        /\ elapsed <= GracePeriod
        /\ (pc = "done" => exitTime <= GracePeriod)
        /\ (Alive => ENABLED Progress)

\* C1 witness: the watchdog ended the process at GracePeriod while Wait()
\* was blocked on a server with a connection still counted.
C1_Witness ==
    /\ s = SIGINT /\ pc = "done" /\ exitBy = "watchdog" /\ exitTime = GracePeriod
    /\ \E srv \in waitCalled : srv \notin waitReturned /\ wg[srv] > 0

\* C2: when Wait() has been called on any server, BeginShutdown() has
\* returned on every server of the group; and BeginShutdown() is entered on a
\* server only after it returned on all servers before it in the collection.
C2_BeginBeforeWait ==
    /\ waitCalled # {} => \A srv \in Built : closeCalls[srv] >= 1
    /\ \A srv \in Built : beginCalls[srv] >= 1 =>
           \A before \in 1..(srv - 1) : closeCalls[before] >= 1

\* C2 witness: two servers, Wait() called on the first only, the second
\* still has a connection.
C2_Witness ==
    /\ servers = 2 /\ waitCalled = {1} /\ wg[2] > 0 /\ pc = "waiting"

\* C3 (as claimed): when the main goroutine ends the process on the SIGINT
\* path, Wait() has returned for every server and every counter is zero.
C3_ExitedDrained ==
    (s = SIGINT /\ exitBy = "main") =>
        /\ waitReturned = Built
        /\ \A srv \in Built : wg[srv] = 0

\* C4: the counter of a server is the number of its StateNew reports minus
\* the number of its StateClosed reports (so it is zero once every new
\* connection has reported closed), and a blocked Wait() can return exactly
\* when the counter is zero.
C4_CounterAndWait ==
    /\ \A srv \in Servers :
           wg[srv] = Cardinality(ReportedNew(srv)) - Cardinality(ReportedClosed(srv))
    /\ pc = "waiting" => ((ENABLED WaitReturn) <=> wg[i] = 0)

\* C4 witness: Wait() was blocked on a server for some time and returned
\* after all MaxConns connections, all on that server, reported closed.
C4_Witness ==
    \E srv \in waitReturned :
        /\ drainTotal > 0
        /\ ReportedClosed(srv) = Conns
        /\ wg[srv] = 0

\* C5: no server's counter is ever negative.
C5_NonNegative == \A srv \in Servers : wg[srv] >= 0

\* C5 witness: on one server a connection has reported closed while another
\* one is being served.
C5_Witness ==
    \E srv \in Servers :
        /\ wg[srv] = 1
        /\ ReportedClosed(srv) # {}
        /\ \E cn \in Conns : conn[cn].srv = srv /\ conn[cn].state = StateActive

\* C6: once BeginShutdown() has returned on a server its listener is closed,
\* stays closed, and accepts no connection.
C6_ClosedRefuses ==
    /\ lateAccept = {}
    /\ \A srv \in Servers : closeCalls[srv] > 0 =>
           Listener[srv] = "closed" /\ ~ENABLED Accept(srv)

\* C6 witness: the process is alive some time after BeginShutdown() returned
\* on a server, and the server could still take a connection if it accepted.
C6_Witness ==
    \E srv \in Built :
        /\ closeCalls[srv] > 0 /\ Alive /\ elapsed > 0
        /\ \E cn \in Conns : conn[cn].state = "none"

\* C7: when the signal received is SIGTERM or SIGQUIT the main goroutine
\* goes straight to os.Exit: no BeginShutdown(), no Wait(), no watchdog, no
\* time spent.
C7_ImmediateExit ==
    s \in {SIGTERM, SIGQUIT} =>
        /\ pc \in {"exit", "done"}
        /\ \A srv \in Servers :
               /\ beginCalls[srv] = 0 /\ closeCalls[srv] = 0
               /\ keepAlives[srv] /\ Listener[srv] # "closed"
        /\ waitCalled = {}
        /\ watchdog = "none"
        /\ elapsed = 0
        /\ (pc = "done" => exitBy = "main" /\ exitTime = 0)

\* C7 witness: the process has exited on SIGTERM with a connection counted.
C7_Witness ==
    /\ s = SIGTERM /\ pc = "done"
    /\ \E srv \in Built : wg[srv] > 0

\* C8 (as claimed): a SIGTERM or SIGQUIT sent while the graceful protocol is
\* blocked in Wait() on a server with open connections ends the process at
\* once: no time passes after it was sent.
C8_TermEndsAtOnce ==
    (c # <<>> /\ Head(c) \in {SIGTERM, SIGQUIT} /\ sentDraining) => elapsed = sentAt

\* C9 (as claimed): on the SIGINT path, a process that has exited with a
\* connection still open was ended by the watchdog, at GracePeriod.
C9_StuckExitsAtBoundary ==
    (s = SIGINT /\ pc = "done" /\ \E cn \in Conns : Open(cn))
        => exitBy = "watchdog" /\ exitTime = GracePeriod

\* C10: when the main goroutine ends the process on the SIGINT path, the
\* time since the signal is at least the sum of the durations of the Wait()
\* calls plus (number of servers - 1) * InterServerPause.
C10_LowerBound ==
    (s = SIGINT /\ exitBy = "main") =>
        exitTime >= drainTotal + (servers - 1) * InterServerPause

\* C10 witness: two servers, some time was spent in Wait(), the main
\* goroutine ended the process.
C10_Witness ==
    /\ s = SIGINT /\ exitBy = "main" /\ servers = 2 /\ drainTotal > 0
    /\ waitReturned = Built

\* C11: once net.Listen has failed for a configuration file the process is
\* gone: the panic of line 180 ended it with a non-zero status, nothing can
\* step any more (the servers started before do not run on), and the signal
\* channel, the shutdown protocol and the watchdog were never reached.
C11_BindFailureAborts ==
    bindFailed =>
        /\ pc = "panicked" /\ exitCode = 2 /\ exitBy = "none"
        /\ ~ENABLED Next
        /\ ~notified /\ c = <<>> /\ s = "none"
        /\ watchdog = "none" /\ waitCalled = {}
        /\ \A srv \in Servers : beginCalls[srv] = 0 /\ Listener[srv] # "closed"

\* C11 witness: the bind failed for a later configuration file while an
\* earlier server had a connection counted.
C11_Witness ==
    /\ bindFailed /\ servers >= 1 /\ servers < nconf
    /\ \E srv \in Built : wg[srv] > 0

\* C12 (as claimed): once BeginShutdown() has returned on a server, a
\* counter that is zero stays zero in every later step.
C12_ZeroIsPermanent ==
    [][\A srv \in Servers : (closeCalls[srv] > 0 /\ wg[srv] = 0) => wg'[srv] = 0]_vars

\* C13: the drain waits are sequential, in collection order, and paced:
\* Wait() is called on a server only when it has returned on every server
\* before it (so a server that never drains keeps Wait() from being called
\* on any later one), and only InterServerPause or more after the previous
\* return; two servers are reported drained at least InterServerPause apart.
C13_SequentialDrain ==
    /\ waitReturned \subseteq waitCalled
    /\ \A srv \in waitCalled : \A before \in 1..(srv - 1) : before \in waitReturned
    /\ \A srv \in waitReturned : \A before \in 1..(srv - 1) :
           returnedAt[srv] >= returnedAt[before] + InterServerPause
    /\ pc = "waiting" =>
           \A before \in 1..(i - 1) : waitStart >= returnedAt[before] + InterServerPause

\* C13 witness: two servers; the first took some time to drain, the second
\* was found drained when its Wait() was called, exactly InterServerPause
\* after the first return.
C13_Witness ==
    /\ servers = 2 /\ waitReturned = {1, 2}
    /\ returnedAt[1] > 0
    /\ returnedAt[2] = returnedAt[1] + InterServerPause

\* The positions of the main goroutine after its signal was received.
AfterRecv == {"beginShutdown", "closeListener", "goWatchdog", "wait", "waiting",
              "sleep", "exit", "done"}

AfterWatchdog == {"wait", "waiting", "sleep"}

\* C15: the watchdog runs only on the SIGINT path and only once
\* BeginShutdown() has returned on every server; it runs from before the
\* first Wait() on, also when the drain loop is through (it is never
\* cancelled), and exits as soon as its Sleep has returned; an exit, by the
\* main goroutine or by the watchdog, has status 0 and is final.
C15_Watchdog ==
    /\ watchdog = "sleeping" =>
           /\ s = SIGINT
           /\ \A srv \in Built : closeCalls[srv] >= 1
           /\ wdDeadline = GracePeriod
    /\ (waitCalled # {} \/ pc \in AfterWatchdog) => watchdog = "sleeping"
    /\ (s = SIGINT /\ pc \in {"exit", "done"}) => watchdog = "sleeping"
    /\ (watchdog = "sleeping" /\ Alive /\ elapsed >= wdDeadline) => ENABLED WatchdogExit
    /\ pc = "done" =>
           /\ exitBy \in {"main", "watchdog"} /\ exitCode = 0
           /\ ~ENABLED Next

\* C15 witness: the drain loop went through and the main goroutine ended
\* the process with the watchdog still asleep.
C15_Witness ==
    /\ s = SIGINT /\ pc = "done" /\ exitBy = "main"
    /\ watchdog = "sleeping" /\ exitTime < wdDeadline

\* The positions of the main goroutine after the loop of lines 194-196.
AfterBeginShutdown == {"goWatchdog", "wait", "waiting", "sleep", "exit", "done"}

\* C16: BeginShutdown() is called at most once on a server and closes its
\* listener at most once; a listener is closed exactly when BeginShutdown()
\* closed it; on the SIGINT path every server has had exactly one call once
\* the loop of lines 194-196 is through, on the SIGTERM/SIGQUIT path none.
C16_ClosedOnce ==
    /\ \A srv \in Servers :
           /\ beginCalls[srv] <= 1 /\ closeCalls[srv] <= beginCalls[srv]
           /\ Listener[srv] = "closed" <=> closeCalls[srv] = 1
           /\ srv \notin Built => beginCalls[srv] = 0
    /\ (s = SIGINT /\ pc \in AfterBeginShutdown) =>
           \A srv \in Built : beginCalls[srv] = 1 /\ closeCalls[srv] = 1
    /\ s # SIGINT => \A srv \in Servers : beginCalls[srv] = 0 /\ closeCalls[srv] = 0

\* C16 witness: two servers, both shut down once, the process ended by the
\* main goroutine on the SIGINT path.
C16_Witness ==
    /\ s = SIGINT /\ pc = "done" /\ servers = 2
    /\ \A srv \in Built : beginCalls[srv] = 1 /\ Listener[srv] = "closed"

\* C17: keep-alives are off on a server when its listener is about to be
\* closed and from then on, so a connection being served on a server whose
\* listener is closed can no longer go idle for another request: it can
\* report closed (or hijacked), never StateIdle.
C17_KeepAlivesOffFirst ==
    /\ pc = "closeListener" => ~keepAlives[i]
    /\ \A srv \in Servers : Listener[srv] = "closed" => ~keepAlives[srv]
    /\ \A cn \in Conns :
           (Alive /\ conn[cn].state = StateActive /\ Listener[conn[cn].srv] = "closed") =>
               /\ ~ENABLED ConnState(cn, StateIdle)
               /\ ENABLED ConnState(cn, StateClosed)

\* C17 witness: a connection is being served on a server whose listener has
\* been closed for some time.
C17_Witness ==
    \E cn \in Conns :
        /\ Alive /\ elapsed > 0
        /\ conn[cn].state = StateActive /\ Listener[conn[cn].srv] = "closed"

\* C18 (as claimed): a hijacked connection reports nothing further and stays
\* counted, so its server's counter is above zero for good, Wait() has not
\* returned and cannot return on that server, and on the SIGINT path only
\* the watchdog ends the process.
C18_HijackedBlocksWait ==
    \A cn \in Conns : conn[cn].state = StateHijacked =>
        /\ wg[conn[cn].srv] > 0
        /\ \A state \in ConnStates : ~ENABLED ConnState(cn, state)
        /\ conn[cn].srv \notin waitReturned
        /\ (s = SIGINT /\ pc = "done") => exitBy = "watchdog"

\* C19: the main goroutine reaches os.Exit only InterServerPause after the
\* return of the last Wait(); when it ends the process on the SIGINT path,
\* the time since the signal is exactly the sum of the durations of the
\* Wait() calls plus (number of servers) * InterServerPause, and that is
\* within GracePeriod (at GracePeriod itself both goroutines are due at the
\* same instant and either may come first).
C19_PauseAfterEveryWait ==
    /\ (s = SIGINT /\ pc = "exit") => elapsed = returnedAt[servers] + InterServerPause
    /\ (s = SIGINT /\ exitBy = "main") =>
           /\ exitTime = drainTotal + servers * InterServerPause
           /\ exitTime <= GracePeriod

\* C19 witness: two servers, no connection at any time; the main goroutine
\* ended the process 2 * InterServerPause after the signal.
C19_Witness ==
    /\ s = SIGINT /\ exitBy = "main" /\ servers = 2
    /\ \A cn \in Conns : conn[cn].state = "none"
    /\ drainTotal = 0
    /\ exitTime = 2 * InterServerPause

TypeOK ==
    /\ nconf \in 1..MaxServers
    /\ servers \in 0..MaxServers
    /\ \A srv \in Servers : Listener[srv] \in {"nil", "open", "closed"}
    /\ elapsed \in 0..Horizon
====
